---- MODULE Spec2Model ----
(***************************************************************************)
(* Full strong LP branching rule, vanilla version                          *)
(* (src/src/pyscipopt/branch_fullstrong_vanilla.c).                        *)
(*                                                                         *)
(* Reals are modelled on an integer grid.  SCIPinfinity stands for the     *)
(* host's infinity value; every dual bound the LP oracle returns is far    *)
(* below it.  Array indices are 0-based as in the C code; the TLA+         *)
(* sequences that hold the arrays are read at index c + 1.                 *)
(***************************************************************************)
EXTENDS Integers, Sequences, FiniteSets, TLC

\* ------------------------------------------------------------------ bounds
\* largest number of LP branching candidates of one execution
MaxCands == 2
\* largest gain (dual bound minus LP objective) strictly below the cutoff
MaxGain == 2
\* largest branch factor of a variable
MaxFactor == 2

\* ------------------------------------------------------- host quantities
\* SCIPinfinity(scip)
SCIPinfinity == 1000
\* SCIPgetLPObjval(scip): LP objective value of the current node
lpobjval == 0
\* SCIPgetCutoffbound(scip): the global cutoff bound, above every gain
Cutoffbound == lpobjval + MaxGain + 1
\* what the LP oracle can report for one side of a branching: a proved dual
\* bound (one below the node's LP objective, which the loop clamps, the ones
\* strictly between, and the cutoff bound), or an estimate that is not a
\* proved bound (at the cutoff bound, where it matters that it is not proved)
SideResults ==
    [bound : {lpobjval - 1} \cup ((lpobjval + 1) .. Cutoffbound), valid : {TRUE}]
    \cup [bound : {Cutoffbound}, valid : {FALSE}]
\* SCIPvarGetBranchFactor of the candidates of one execution: every variable
\* with the default factor, or the factors alternating
BranchFactors(n) ==
    {[i \in 1 .. n |-> 1],
     [i \in 1 .. n |-> IF i % 2 = 1 THEN MaxFactor ELSE 1]}

\* a NULL array pointer; an allocated array has nlpcands > 0 entries
NULL == << >>

VARIABLES
    \* struct SCIP_BranchruleData
    ruledata,           \* "allocated" | "freed": the branchruledata block
    forcestrongbranch,
    scoresize,
    latestscores,
    validscores,
    \* position of the execute-on-LP callback
    pc,                 \* "idle" | "loop" | "endstrongbranch" | "branch"
    exit,               \* how the selection routine left: "none" |
                        \* "shortcircuit" | "done" | "early_cutoff" |
                        \* "lp_error_abort" | "error"
    retcode,            \* SCIP_RETCODE of the last callback return
    result,             \* *result
    \* the callback's candidate arrays and the selection routine's outputs
    nlpcands,
    lpcands,
    lpcandssol,
    branchfactor,       \* SCIPvarGetBranchFactor(lpcands[c]) at index c + 1
    c,
    bestcand,
    bestdown,
    bestup,
    bestscore,
    bestdownvalid,
    bestupvalid,
    provedbound,
    besthasinf,
    \* what the probe returned for candidates 0 .. Len(probes) - 1
    probes,
    \* host
    strongbranchmode,   \* between SCIPstartStrongbranch and SCIPendStrongbranch
    nstart,             \* SCIPstartStrongbranch calls of this execution
    nend,               \* SCIPendStrongbranch calls of this execution
    buffers,            \* scoped buffer arrays of this execution still held
    branched            \* SCIPbranchVarVal calls of this execution: <<var, val>>

rulevars == <<ruledata, forcestrongbranch, scoresize, latestscores, validscores>>
bestvars == <<bestcand, bestdown, bestup, bestscore, bestdownvalid, bestupvalid,
              provedbound, besthasinf>>
candvars == <<nlpcands, lpcands, lpcandssol, branchfactor>>
hostvars == <<strongbranchmode, nstart, nend, buffers, branched>>
vars == <<rulevars, pc, exit, retcode, result, candvars, c, bestvars, probes,
          hostvars>>

\* ---------------------------------------------------------------- helpers
MAX(a, b) == IF a >= b THEN a ELSE b

\* SCIPisGE(scip, a, b): a >= b up to the host's epsilon, which is below
\* the grid's resolution
SCIPisGE(a, b) == a >= b

\* SCIPgetBranchScore(scip, var, downgain, upgain): the host's product
\* score with a floor on each gain (one grid unit here)
SCIPgetBranchScore(factor, downgain, upgain) ==
    factor * MAX(downgain, 1) * MAX(upgain, 1)

\* an array of n copies of v
ArrayOf(n, v) == [i \in 1 .. n |-> v]

\* BMSclearMemoryArray on the two score arrays: all bytes zero
\* the clearing left out where the array held n entries before
ClearedScores_Stale(n) ==
    IF Len(latestscores) = n THEN latestscores ELSE ArrayOf(n, 0)

\* BMSclearMemoryArray of the freshly allocated arrays
ClearedScores(n) == ArrayOf(n, 0)
ClearedValid(n) == ArrayOf(n, FALSE)

\* the buffer left as BMSclearMemoryArray wrote it
EmptyScores_Zero(n) == ArrayOf(n, 0)

\* "empty the score buffer"
EmptyScores(n) == ArrayOf(n, -SCIPinfinity)
EmptyValid(n) == ArrayOf(n, FALSE)

\* SCIPgetLPBranchCands: the host's candidate variables and their LP values
HostCands(n) == [i \in 1 .. n |-> 10 + (n - i)]
HostCandsSol(n) == [i \in 1 .. n |-> 2 * i + 1]

\* the three duplicated candidate arrays
AllBuffers == {"lpcands", "lpcandssol", "lpcandsfrac"}

\* SCIPgetFullstrongVanillaLatestScores / SCIPgetFullstrongVanillaValidScores
SCIPgetFullstrongVanillaLatestScores == latestscores
SCIPgetFullstrongVanillaValidScores == validscores

\* --------------------------------------------------- strong-branch probe
\* what the LP oracle SCIPcolGetStrongbranch writes
OracleResults ==
    {[down |-> d.bound, up |-> u.bound, downvalid |-> d.valid,
      upvalid |-> u.valid, lperror |-> FALSE] :
        d \in SideResults, u \in SideResults}
    \cup {[down |-> lpobjval, up |-> lpobjval, downvalid |-> FALSE,
           upvalid |-> FALSE, lperror |-> TRUE]}

NoOracle == [down |-> lpobjval, up |-> lpobjval, downvalid |-> FALSE,
             upvalid |-> FALSE, lperror |-> FALSE]

\* the circumstances of one probe call: the variable's status, whether its
\* column is in the LP, whether the solve is being stopped, and what the
\* oracle would write
ProbeInputs ==
    {[varstatus |-> "COLUMN", inlp |-> TRUE, stopped |-> FALSE, oracle |-> o] :
        o \in OracleResults}
    \cup {[varstatus |-> "LOOSE", inlp |-> FALSE, stopped |-> FALSE,
           oracle |-> NoOracle],
          [varstatus |-> "COLUMN", inlp |-> FALSE, stopped |-> FALSE,
           oracle |-> NoOracle],
          [varstatus |-> "COLUMN", inlp |-> TRUE, stopped |-> TRUE,
           oracle |-> NoOracle]}

\* the probe with the stop test ahead of the reset of the validity flags
SCIPgetVarStrongbranchFracVanilla_StopFirst(in, pre) ==
    LET cleared == [pre EXCEPT !.downvalid = FALSE, !.upvalid = FALSE]
    IN  IF in.stopped /\ in.varstatus = "COLUMN" /\ in.inlp
        THEN [ret |-> "SCIP_OKAY", out |-> [pre EXCEPT !.lperror = TRUE],
              oraclecalls |-> 0]
        ELSE IF in.varstatus # "COLUMN" \/ ~in.inlp
        THEN [ret |-> "SCIP_INVALIDDATA", out |-> cleared, oraclecalls |-> 0]
        ELSE [ret |-> "SCIP_OKAY", out |-> in.oracle, oraclecalls |-> 1]

\* SCIPgetVarStrongbranchFracVanilla: pre holds the values of the output
\* arguments before the call
SCIPgetVarStrongbranchFracVanilla(in, pre) ==
    LET cleared == [pre EXCEPT !.downvalid = FALSE, !.upvalid = FALSE]
    IN  IF in.varstatus # "COLUMN"
        THEN [ret |-> "SCIP_INVALIDDATA", out |-> cleared, oraclecalls |-> 0]
        ELSE IF ~in.inlp
        THEN [ret |-> "SCIP_INVALIDDATA", out |-> cleared, oraclecalls |-> 0]
        ELSE IF in.stopped
        THEN [ret |-> "SCIP_OKAY", out |-> [cleared EXCEPT !.lperror = TRUE],
              oraclecalls |-> 0]
        ELSE [ret |-> "SCIP_OKAY", out |-> in.oracle, oraclecalls |-> 1]

\* ------------------------------------------- evaluation of one candidate
\* downinf / upinf
IsInf(valid, bound) == valid /\ SCIPisGE(bound, Cutoffbound)

\* the case split with its first test loosened
Score_AnyInfeasible(downinf, upinf, downgain, upgain, factor) ==
    IF downinf \/ upinf THEN SCIPinfinity
    ELSE SCIPgetBranchScore(factor, downgain, upgain)

\* the score of a candidate ("check if there are infeasible roundings")
Score(downinf, upinf, downgain, upgain, factor) ==
    IF downinf /\ upinf THEN SCIPinfinity
    ELSE IF downinf THEN upgain * factor
    ELSE IF upinf THEN downgain * factor
    ELSE SCIPgetBranchScore(factor, downgain, upgain)

\* the flag also set in the branch of an infeasible upward rounding
ScoreIsValid_UpInf(downinf, upinf) ==
    IF downinf /\ upinf THEN FALSE
    ELSE IF downinf THEN FALSE
    ELSE TRUE

\* validscores[c] is set in the last branch of the same case split
ScoreIsValid(downinf, upinf) ==
    IF downinf /\ upinf THEN FALSE
    ELSE IF downinf THEN FALSE
    ELSE IF upinf THEN FALSE
    ELSE TRUE

\* variants of the update condition, each with one slip
ReplaceBest_NoSupersede(score, best, downinf, upinf, hasinf) ==
    score > best /\ (downinf \/ upinf \/ ~hasinf)

ReplaceBest_Ties(score, best, downinf, upinf, hasinf) ==
    \/ (score >= best /\ (downinf \/ upinf \/ ~hasinf))
    \/ (~hasinf /\ (downinf \/ upinf))

ReplaceBest_InfAlways(score, best, downinf, upinf, hasinf) ==
    \/ (score > best /\ ~hasinf)
    \/ (downinf \/ upinf)

ReplaceBest_AnyHigher(score, best, downinf, upinf, hasinf) ==
    \/ score > best
    \/ (~hasinf /\ (downinf \/ upinf))

\* the condition under which the candidate becomes the best
ReplaceBest(score, best, downinf, upinf, hasinf) ==
    \/ (score > best /\ (downinf \/ upinf \/ ~hasinf))
    \/ (~hasinf /\ (downinf \/ upinf))

\* the probe's bound taken as returned
Clamp_None(bound) == bound

\* "evaluate strong branching": down = MAX(down, lpobjval), and up likewise
Clamp(bound) == MAX(bound, lpobjval)

\* the flag set only by a candidate infeasible on both sides
BestHasInf_BothOnly(downinf, upinf, hasinf) ==
    IF downinf /\ upinf THEN TRUE ELSE hasinf

\* besthasinf after an update of the best by a candidate
BestHasInf(downinf, upinf, hasinf) ==
    IF downinf \/ upinf THEN TRUE ELSE hasinf

\* the loop left on every candidate infeasible on both sides
BreakLoop_Always(force, downinf, upinf) == downinf /\ upinf

\* the loop never left early
BreakLoop_Never(force, downinf, upinf) == FALSE

\* the condition under which the loop is left after an update of the best
BreakLoop(force, downinf, upinf) == ~force /\ downinf /\ upinf

\* the short-circuit with the loop entered although one candidate is left
ShortCircuit_StoppedOnly(force, n, stopped) == stopped

\* "if only one candidate exists, choose this one without applying strong
\* branching; also, when SCIP is about to be stopped [...]"
ShortCircuit(force, n, stopped) == (~force /\ n = 1) \/ stopped

\* the initial best with a zero score
InitialBest_ZeroScore ==
    [cand |-> 0, down |-> lpobjval, up |-> lpobjval, downvalid |-> TRUE,
     upvalid |-> TRUE, score |-> 0, provedbound |-> lpobjval]

\* the outputs of the selection routine before the short-circuit test
InitialBest ==
    [cand |-> 0, down |-> lpobjval, up |-> lpobjval, downvalid |-> TRUE,
     upvalid |-> TRUE, score |-> -SCIPinfinity, provedbound |-> lpobjval]

\* the result left as the selection routine returned it
BranchResult_Unset == "SCIP_DIDNOTRUN"

\* *result after "perform the branching"
BranchResult == "SCIP_BRANCHED"

\* the branching always requested on the first candidate
BranchTarget_First(cands, sols, best) == <<cands[1], sols[1]>>

\* var = lpcands[bestcand]; val = lpcandssol[bestcand]
BranchTarget(cands, sols, best) == <<cands[best + 1], sols[best + 1]>>

\* ------------------------------------------------------------------- Init
\* the state SCIPincludeBranchruleFullstrongVanilla leaves
Init ==
    /\ ruledata = "allocated"
    /\ forcestrongbranch = TRUE
    /\ scoresize = 0
    /\ latestscores = NULL
    /\ validscores = NULL
    /\ pc = "idle"
    /\ exit = "none"
    /\ retcode = "NONE"
    /\ result = "NONE"
    /\ nlpcands = 0
    /\ lpcands = << >>
    /\ lpcandssol = << >>
    /\ branchfactor = << >>
    /\ c = 0
    /\ bestcand = 0
    /\ bestdown = 0
    /\ bestup = 0
    /\ bestscore = 0
    /\ bestdownvalid = FALSE
    /\ bestupvalid = FALSE
    /\ provedbound = 0
    /\ besthasinf = FALSE
    /\ probes = << >>
    /\ strongbranchmode = FALSE
    /\ nstart = 0
    /\ nend = 0
    /\ buffers = {}
    /\ branched = << >>

\* ---------------------------------------------------------------- actions
\* branchExeclpFullstrong up to the return of the selection routine's
\* preamble: the candidate arrays are fetched and duplicated, the score
\* arrays are freed, reallocated and cleared, and
\* SCIPselectVarStrongBranchingVanilla runs until it either returns early or
\* stands before the first candidate.  alloc says which allocation of the
\* score arrays fails, stopped is SCIPisStopped(scip), garbage is the content
\* of a block that was allocated but never written, factors are the branch
\* factors of the candidate variables.
branchExeclpFullstrong(n, alloc, stopped, garbage, factors) ==
    /\ pc = "idle"
    /\ ruledata = "allocated"
    /\ nlpcands' = n
    /\ branchfactor' = factors
    /\ lpcands' = HostCands(n)
    /\ lpcandssol' = HostCandsSol(n)
    /\ scoresize' = n
    /\ probes' = << >>
    /\ branched' = << >>
    /\ buffers' = AllBuffers
    /\ nend' = 0
    /\ c' = 0
    /\ besthasinf' = FALSE
    /\ UNCHANGED <<ruledata, forcestrongbranch>>
    /\ IF alloc # "none"
       THEN /\ latestscores' = IF alloc = "latestscores" THEN NULL
                               ELSE ArrayOf(n, garbage)
            /\ validscores' = NULL
            /\ result' = "SCIP_DIDNOTRUN"
            /\ retcode' = "SCIP_NOMEMORY"
            /\ pc' = "idle"
            /\ exit' = "none"
            /\ nstart' = 0
            /\ bestcand' = 0
            /\ bestdown' = 0
            /\ bestup' = 0
            /\ bestscore' = 0
            /\ bestdownvalid' = FALSE
            /\ bestupvalid' = FALSE
            /\ provedbound' = 0
            /\ UNCHANGED strongbranchmode
       ELSE /\ result' = "SCIP_DIDNOTRUN"
            /\ retcode' = "NONE"
            /\ provedbound' = InitialBest.provedbound
            /\ bestcand' = InitialBest.cand
            /\ bestdown' = InitialBest.down
            /\ bestup' = InitialBest.up
            /\ bestdownvalid' = InitialBest.downvalid
            /\ bestupvalid' = InitialBest.upvalid
            /\ bestscore' = InitialBest.score
            /\ IF ShortCircuit(forcestrongbranch, n, stopped)
               THEN /\ latestscores' = ClearedScores(n)
                    /\ validscores' = ClearedValid(n)
                    /\ exit' = "shortcircuit"
                    /\ pc' = "branch"
                    /\ nstart' = 0
                    /\ UNCHANGED strongbranchmode
               ELSE /\ latestscores' = EmptyScores(n)
                    /\ validscores' = EmptyValid(n)
                    /\ strongbranchmode' = TRUE
                    /\ nstart' = 1
                    /\ exit' = "none"
                    /\ pc' = "loop"

\* one pass through the body of the candidate loop of
\* SCIPselectVarStrongBranchingVanilla, for candidate c: in is what the probe
\* meets, and flags are the values the locals downvalid, upvalid and lperror
\* hold before the call (left by the previous pass, or never written before
\* the first one)
SelectLoop(in, flags) ==
    /\ pc = "loop"
    /\ c < nlpcands
    /\ LET pre == [down |-> -SCIPinfinity, up |-> -SCIPinfinity,
                   downvalid |-> flags.downvalid, upvalid |-> flags.upvalid,
                   lperror |-> flags.lperror]
           r == SCIPgetVarStrongbranchFracVanilla(in, pre)
           down == Clamp(r.out.down)
           up == Clamp(r.out.up)
           downgain == down - lpobjval
           upgain == up - lpobjval
           downinf == IsInf(r.out.downvalid, down)
           upinf == IsInf(r.out.upvalid, up)
           score == Score(downinf, upinf, downgain, upgain,
                          branchfactor[c + 1])
           replace == ReplaceBest(score, bestscore, downinf, upinf, besthasinf)
       IN  /\ probes' = Append(probes, [ret |-> r.ret, down |-> r.out.down,
                    up |-> r.out.up, downvalid |-> r.out.downvalid,
                    upvalid |-> r.out.upvalid, lperror |-> r.out.lperror,
                    oraclecalls |-> r.oraclecalls, stopped |-> in.stopped])
           /\ IF r.ret # "SCIP_OKAY"
              THEN \* SCIP_CALL returns the error through the selection
                   \* routine and through the callback
                   /\ pc' = "idle"
                   /\ exit' = "error"
                   /\ retcode' = r.ret
                   /\ UNCHANGED <<latestscores, validscores, c, bestvars>>
              ELSE IF r.out.lperror
              THEN /\ pc' = "endstrongbranch"
                   /\ exit' = "lp_error_abort"
                   /\ UNCHANGED <<latestscores, validscores, c, bestvars,
                                  retcode>>
              ELSE /\ latestscores' = [latestscores EXCEPT ![c + 1] = score]
                   /\ validscores' = [validscores EXCEPT ![c + 1] =
                          IF ScoreIsValid(downinf, upinf) THEN TRUE ELSE @]
                   /\ IF replace
                      THEN /\ bestcand' = c
                           /\ bestdown' = down
                           /\ bestup' = up
                           /\ bestdownvalid' = r.out.downvalid
                           /\ bestupvalid' = r.out.upvalid
                           /\ bestscore' = score
                           /\ besthasinf' = BestHasInf(downinf, upinf,
                                                        besthasinf)
                      ELSE UNCHANGED <<bestcand, bestdown, bestup,
                               bestdownvalid, bestupvalid, bestscore,
                               besthasinf>>
                   /\ UNCHANGED <<provedbound, retcode>>
                   /\ IF replace /\ BreakLoop(forcestrongbranch, downinf, upinf)
                      THEN /\ c' = c
                           /\ pc' = "endstrongbranch"
                           /\ exit' = "early_cutoff"
                      ELSE /\ c' = c + 1
                           /\ pc' = IF c + 1 < nlpcands THEN "loop"
                                    ELSE "endstrongbranch"
                           /\ exit' = IF c + 1 < nlpcands THEN "none"
                                      ELSE "done"
    /\ UNCHANGED <<ruledata, forcestrongbranch, scoresize, result, candvars,
                   hostvars>>

\* the end of SCIPselectVarStrongBranchingVanilla: "end strong branching"
\* and the return to the callback
EndStrongbranch ==
    /\ pc = "endstrongbranch"
    /\ strongbranchmode' = FALSE
    /\ nend' = nend + 1
    /\ pc' = "branch"
    /\ UNCHANGED <<rulevars, exit, retcode, result, candvars, c, bestvars,
                   probes, nstart, buffers, branched>>

\* the rest of branchExeclpFullstrong after the selection routine returned
\* SCIP_OKAY: "perform the branching", set the result and free the buffers;
\* ok says whether SCIPbranchVarVal succeeds
PerformBranching(ok) ==
    /\ pc = "branch"
    /\ branched' = Append(branched, BranchTarget(lpcands, lpcandssol, bestcand))
    /\ IF ok
       THEN /\ result' = BranchResult
            /\ buffers' = {}
            /\ retcode' = "SCIP_OKAY"
       ELSE /\ retcode' = "SCIP_ERROR"
            /\ UNCHANGED <<result, buffers>>
    /\ pc' = "idle"
    /\ UNCHANGED <<rulevars, exit, candvars, c, bestvars, probes,
                   strongbranchmode, nstart, nend>>

\* between two calls of the callback its frame does not exist: the host-side
\* operations below leave the record of the last execution empty
NoFrame ==
    /\ exit' = "none"
    /\ retcode' = "NONE"
    /\ result' = "NONE"
    /\ nlpcands' = 0
    /\ lpcands' = << >>
    /\ lpcandssol' = << >>
    /\ branchfactor' = << >>
    /\ c' = 0
    /\ bestcand' = 0
    /\ bestdown' = 0
    /\ bestup' = 0
    /\ bestscore' = 0
    /\ bestdownvalid' = FALSE
    /\ bestupvalid' = FALSE
    /\ provedbound' = 0
    /\ besthasinf' = FALSE
    /\ probes' = << >>
    /\ nstart' = 0
    /\ nend' = 0
    /\ buffers' = {}
    /\ branched' = << >>

\* the host sets the parameter branching/fullstrong-vanilla/forcestrongbranch
SetForcestrongbranch(b) ==
    /\ pc = "idle"
    /\ ruledata = "allocated"
    /\ forcestrongbranch # b
    /\ forcestrongbranch' = b
    /\ NoFrame
    /\ UNCHANGED <<ruledata, scoresize, latestscores, validscores, pc,
                   strongbranchmode>>

\* branchFreeFullstrong
branchFreeFullstrong ==
    /\ pc = "idle"
    /\ ruledata = "allocated"
    /\ latestscores' = NULL
    /\ validscores' = NULL
    /\ ruledata' = "freed"
    /\ NoFrame
    /\ UNCHANGED <<forcestrongbranch, scoresize, pc, strongbranchmode>>

\* SCIPincludeBranchruleFullstrongVanilla
SCIPincludeBranchruleFullstrongVanilla ==
    /\ pc = "idle"
    /\ ruledata = "freed"
    /\ ruledata' = "allocated"
    /\ latestscores' = NULL
    /\ validscores' = NULL
    /\ scoresize' = 0
    /\ forcestrongbranch' = TRUE
    /\ NoFrame
    /\ UNCHANGED <<pc, strongbranchmode>>

\* what an allocated but unwritten block of reals may hold
Garbage == {0, -SCIPinfinity}

Next ==
    \/ \E n \in 1 .. MaxCands, stopped \in BOOLEAN :
           \E factors \in BranchFactors(n) :
               branchExeclpFullstrong(n, "none", stopped, 0, factors)
    \/ \E n \in 1 .. MaxCands :
           branchExeclpFullstrong(n, "latestscores", FALSE, 0, ArrayOf(n, 1))
    \/ \E n \in 1 .. MaxCands, garbage \in Garbage :
           branchExeclpFullstrong(n, "validscores", FALSE, garbage,
                                  ArrayOf(n, 1))
    \/ \E in \in ProbeInputs :
           SelectLoop(in,
               IF probes = << >>
               THEN [downvalid |-> FALSE, upvalid |-> FALSE, lperror |-> FALSE]
               ELSE probes[Len(probes)])
    \/ EndStrongbranch
    \/ \E ok \in BOOLEAN : PerformBranching(ok)
    \/ \E b \in BOOLEAN : SetForcestrongbranch(b)
    \/ branchFreeFullstrong
    \/ SCIPincludeBranchruleFullstrongVanilla

Spec == Init /\ [][Next]_vars

\* ============================================================== properties
\* candidate i (1-based position in probes) was probed and evaluated: the
\* probe returned normally and did not report lperror
Evaluated(i) ==
    /\ i \in 1 .. Len(probes)
    /\ probes[i].ret = "SCIP_OKAY"
    /\ ~probes[i].lperror

\* the bounds of an evaluated candidate, clamped from below by the LP
\* objective value
ClampedDown(i) == IF probes[i].down > lpobjval THEN probes[i].down ELSE lpobjval
ClampedUp(i) == IF probes[i].up > lpobjval THEN probes[i].up ELSE lpobjval

\* infeasibility of an evaluated candidate, from the probe's record
DownInfeasible(i) == probes[i].downvalid /\ ClampedDown(i) >= Cutoffbound
UpInfeasible(i) == probes[i].upvalid /\ ClampedUp(i) >= Cutoffbound
BothInfeasible(i) == DownInfeasible(i) /\ UpInfeasible(i)
SomeInfeasible(i) == DownInfeasible(i) \/ UpInfeasible(i)
OneInfeasible(i) == SomeInfeasible(i) /\ ~BothInfeasible(i)

\* infeasibility class: 2 both sides, 1 one side, 0 regular
ClassOf(i) == IF BothInfeasible(i) THEN 2 ELSE IF SomeInfeasible(i) THEN 1 ELSE 0

\* the selection routine has returned SCIP_OKAY after entering the loop
LoopReturned == exit \in {"done", "early_cutoff", "lp_error_abort"}

\* every candidate was probed and evaluated
AllEvaluated ==
    /\ nlpcands > 0
    /\ Len(probes) = nlpcands
    /\ \A i \in 1 .. nlpcands : Evaluated(i)

\* the step is a pass of the loop that evaluates candidate c
EvaluatesCandidate ==
    /\ pc = "loop"
    /\ Len(probes') = Len(probes) + 1
    /\ probes'[Len(probes')].ret = "SCIP_OKAY"
    /\ ~probes'[Len(probes')].lperror

\* infeasibility of the candidate the step evaluates
NewDownInf ==
    /\ probes'[Len(probes')].downvalid
    /\ probes'[Len(probes')].down >= Cutoffbound
NewUpInf ==
    /\ probes'[Len(probes')].upvalid
    /\ probes'[Len(probes')].up >= Cutoffbound

\* C1: in a pass of the loop that evaluates a candidate infeasible on at
\* least one side while the recorded best has no infeasibility, that
\* candidate becomes the best whatever its score and the best score are.
C1_InfeasibleSupersedes ==
    [][(EvaluatesCandidate /\ ~besthasinf /\ (NewDownInf \/ NewUpInf))
         => (/\ bestcand' = c
             /\ bestscore' = latestscores'[c + 1]
             /\ besthasinf')]_vars

\* a candidate infeasible on one side is the best although an earlier
\* regular candidate has a higher score
C1_Witness ==
    /\ bestcand >= 1
    /\ Evaluated(bestcand + 1)
    /\ SomeInfeasible(bestcand + 1)
    /\ \A j \in 1 .. bestcand : Evaluated(j) /\ ~SomeInfeasible(j)
    /\ \E j \in 1 .. bestcand : latestscores[j] > latestscores[bestcand + 1]

\* the first candidate that is infeasible on both sides
FirstBothInfeasible ==
    CHOOSE i \in 1 .. Len(probes) :
        /\ BothInfeasible(i)
        /\ \A j \in 1 .. (i - 1) : ~BothInfeasible(j)

\* C2: when every candidate was probed without lperror and at least one is
\* infeasible on both sides, the returned bestcand is the first such
\* candidate.
C2_FirstBothInfeasibleWins ==
    (LoopReturned /\ AllEvaluated /\ \E i \in 1 .. Len(probes) : BothInfeasible(i))
        => bestcand + 1 = FirstBothInfeasible

\* two candidates infeasible on both sides were probed and the first is kept
C2_Witness ==
    /\ LoopReturned
    /\ AllEvaluated
    /\ \E i, j \in 1 .. Len(probes) :
           i < j /\ BothInfeasible(i) /\ BothInfeasible(j) /\ bestcand + 1 = i

\* the dual bound of a one-side-infeasible candidate on its feasible side
FeasibleSideBound(i) == IF DownInfeasible(i) THEN ClampedUp(i) ELSE ClampedDown(i)

\* C3: when every candidate was probed without lperror, none is infeasible
\* on both sides and at least one is infeasible on exactly one side, the
\* returned bestcand is one-side-infeasible and has the largest dual bound on
\* its feasible side among the one-side-infeasible candidates.
C3_BestDualBoundOneSided ==
    (/\ LoopReturned
     /\ AllEvaluated
     /\ \A i \in 1 .. Len(probes) : ~BothInfeasible(i)
     /\ \E i \in 1 .. Len(probes) : OneInfeasible(i))
        => /\ OneInfeasible(bestcand + 1)
           /\ \A j \in 1 .. Len(probes) :
                  OneInfeasible(j)
                      => FeasibleSideBound(bestcand + 1) >= FeasibleSideBound(j)

\* C4: after the loop was entered and left, bestscore is at least the
\* latest score of every evaluated candidate of the infeasibility class of
\* bestcand.
C4_BestScoreWithinClass ==
    (LoopReturned /\ Evaluated(bestcand + 1))
        => \A i \in 1 .. Len(probes) :
               (Evaluated(i) /\ ClassOf(i) = ClassOf(bestcand + 1))
                   => bestscore >= latestscores[i]

\* the best is infeasible on one side, beats another candidate of its class
\* and has a lower score than a regular candidate
C4_Witness ==
    /\ LoopReturned
    /\ Evaluated(bestcand + 1)
    /\ ClassOf(bestcand + 1) = 1
    /\ \E i \in 1 .. Len(probes) :
           /\ Evaluated(i)
           /\ i # bestcand + 1
           /\ ClassOf(i) = 1
           /\ latestscores[i] < bestscore

\* C5 as stated: once the best has an infeasibility, a later candidate
\* displaces it exactly when its score is strictly higher, be it
\* infeasibility-bearing or regular.
C5_AnyHigherScoreDisplaces ==
    [][(EvaluatesCandidate /\ besthasinf)
         => ((bestcand' = c) <=> (latestscores'[c + 1] > bestscore))]_vars

\* C5 (amended): once the best has an infeasibility, a later candidate
\* displaces it exactly when its score is strictly higher and it is itself
\* infeasible on at least one side; a regular candidate never displaces it.
C5_OnlyInfeasibleHigherDisplaces ==
    [][(EvaluatesCandidate /\ besthasinf)
         => ((bestcand' = c)
               <=> (/\ latestscores'[c + 1] > bestscore
                    /\ (NewDownInf \/ NewUpInf)))]_vars

\* a regular candidate probed after an infeasibility-bearing best has a
\* strictly higher score and did not displace it
C5_Witness ==
    /\ besthasinf
    /\ Evaluated(bestcand + 1)
    /\ \E j \in (bestcand + 2) .. Len(probes) :
           /\ Evaluated(j)
           /\ ~SomeInfeasible(j)
           /\ latestscores[j] > bestscore

\* the best candidate under the explicit class comparison, over the first k
\* evaluated candidates: a candidate replaces the best iff its class is
\* higher, or equal with a strictly higher score
RECURSIVE ClassBest(_)
ClassBest(k) ==
    IF k = 0
    THEN [cand |-> 0, class |-> 0, score |-> -SCIPinfinity]
    ELSE LET b == ClassBest(k - 1)
         IN  IF /\ Evaluated(k)
                /\ \/ ClassOf(k) > b.class
                   \/ (ClassOf(k) = b.class /\ latestscores[k] > b.score)
             THEN [cand |-> k - 1, class |-> ClassOf(k), score |-> latestscores[k]]
             ELSE b

\* C6: at every point of an execution the implemented update condition has
\* selected the candidate the explicit class comparison (both-infeasible >
\* one-side-infeasible > regular, ties broken by strictly higher score)
\* selects over the candidates probed so far, under both values of
\* forcestrongbranch.
C6_ClassComparisonEquivalent ==
    (nlpcands > 0 /\ retcode # "SCIP_NOMEMORY")
        => bestcand = ClassBest(Len(probes)).cand

\* the selection has passed over a candidate of a lower class with a higher
\* score and over a candidate of the same class with an equal score
C6_Witness ==
    /\ LoopReturned
    /\ Len(probes) >= 2
    /\ Evaluated(bestcand + 1)
    /\ \E i \in 1 .. Len(probes) :
           /\ Evaluated(i)
           /\ i # bestcand + 1
           /\ \/ (ClassOf(i) < ClassOf(bestcand + 1) /\ latestscores[i] > bestscore)
              \/ (ClassOf(i) = ClassOf(bestcand + 1) /\ latestscores[i] = bestscore)

\* the callback has returned
Returned == pc = "idle" /\ retcode # "NONE"

\* C7 as stated: after every execution, validscores[c] implies that both
\* probe bounds of c were reported valid and both clamped bounds are below
\* the cutoff bound.
C7_ValidImpliesBothBoundsValid ==
    Returned
        => \A i \in 1 .. Len(validscores) :
               validscores[i]
                   => /\ Evaluated(i)
                      /\ probes[i].downvalid /\ probes[i].upvalid
                      /\ ClampedDown(i) < Cutoffbound
                      /\ ClampedUp(i) < Cutoffbound

\* C7 (amended): after every execution, validscores[c] implies that c was
\* evaluated and that on neither side a valid bound at or above the cutoff
\* bound was reported; a bound that is only an estimate does not prevent
\* validscores[c], be it below, at or above the cutoff bound.
C7_ValidImpliesNoInfeasibility ==
    Returned
        => \A i \in 1 .. Len(validscores) :
               validscores[i]
                   => /\ Evaluated(i)
                      /\ ~(probes[i].downvalid /\ ClampedDown(i) >= Cutoffbound)
                      /\ ~(probes[i].upvalid /\ ClampedUp(i) >= Cutoffbound)

\* a candidate whose down bound is an estimate at the cutoff bound has a
\* valid score
C7_Witness ==
    /\ Returned
    /\ \E i \in 1 .. Len(validscores) :
           /\ validscores[i]
           /\ Evaluated(i)
           /\ ~probes[i].downvalid
           /\ ClampedDown(i) >= Cutoffbound

\* C8 as stated: after every execution that returns without error, the
\* latest score of every candidate probed without lperror is finite.
C8_ScoresFinite ==
    (Returned /\ retcode = "SCIP_OKAY")
        => \A i \in 1 .. Len(probes) :
               Evaluated(i)
                   => /\ latestscores[i] # SCIPinfinity
                      /\ latestscores[i] # -SCIPinfinity

\* C8 (amended): after every execution that returns without error, the
\* latest score of every candidate probed without lperror is not -infinity;
\* it is +infinity exactly when the candidate is infeasible on both sides and
\* finite otherwise.
C8_ScoresFiniteUnlessBothInfeasible ==
    (Returned /\ retcode = "SCIP_OKAY")
        => \A i \in 1 .. Len(probes) :
               Evaluated(i)
                   => /\ latestscores[i] > -SCIPinfinity
                      /\ latestscores[i] <= SCIPinfinity
                      /\ (latestscores[i] = SCIPinfinity <=> BothInfeasible(i))

\* an execution returned without error with one candidate infeasible on
\* both sides and another infeasible on one side only
C8_Witness ==
    /\ Returned
    /\ retcode = "SCIP_OKAY"
    /\ \E i, j \in 1 .. Len(probes) :
           /\ Evaluated(i) /\ BothInfeasible(i) /\ latestscores[i] = SCIPinfinity
           /\ Evaluated(j) /\ OneInfeasible(j) /\ latestscores[j] < SCIPinfinity

\* C9: after a short-circuited execution the probe was never called and the
\* accessors show -infinity in every entry of the latest scores and false in
\* every entry of the valid scores.
C9_ShortCircuitLeavesEmptyScores ==
    exit = "shortcircuit"
        => /\ probes = << >>
           /\ Len(SCIPgetFullstrongVanillaLatestScores) = nlpcands
           /\ \A i \in 1 .. nlpcands :
                  /\ SCIPgetFullstrongVanillaLatestScores[i] = -SCIPinfinity
                  /\ SCIPgetFullstrongVanillaValidScores[i] = FALSE

\* C10: a pass of the loop in which the probe reports lperror leaves
\* bestcand, bestscore, bestdown and bestup as the earlier candidates
\* produced them and ends the loop; from then on no further candidate is
\* probed, the entries of the score arrays from that candidate on are
\* -infinity and false, bestcand is 0 if it was the first candidate, and
\* SCIPendStrongbranch has been called once when the selection routine
\* has returned.
C10_LperrorAbort ==
    /\ [][(/\ pc = "loop"
            /\ Len(probes') = Len(probes) + 1
            /\ probes'[Len(probes')].ret = "SCIP_OKAY"
            /\ probes'[Len(probes')].lperror)
           => /\ <<bestcand, bestscore, bestdown, bestup>>'
                    = <<bestcand, bestscore, bestdown, bestup>>
              /\ pc' = "endstrongbranch"
              /\ exit' = "lp_error_abort"
              /\ c' = c]_vars
    /\ [](exit = "lp_error_abort"
           => /\ Len(probes) = c + 1
              /\ probes[c + 1].lperror
              /\ \A j \in 1 .. c : Evaluated(j)
              /\ \A j \in (c + 1) .. nlpcands :
                     latestscores[j] = -SCIPinfinity /\ validscores[j] = FALSE
              /\ (c = 0 => bestcand = 0)
              /\ bestcand <= MAX(c - 1, 0)
              /\ (pc \in {"branch", "idle"} => (nend = 1 /\ ~strongbranchmode)))

\* the probe of the second candidate reported lperror after the first was
\* scored, and the selection routine has returned
C10_Witness ==
    /\ exit = "lp_error_abort"
    /\ c = 1
    /\ nlpcands = 2
    /\ pc = "branch"
    /\ nend = 1
    /\ latestscores[1] > -SCIPinfinity
    /\ latestscores[2] = -SCIPinfinity

\* the selection routine has returned SCIP_OKAY to the callback
SelectionReturned ==
    /\ exit \in {"shortcircuit", "done", "early_cutoff", "lp_error_abort"}
    /\ pc \in {"branch", "idle"}

\* C11 as stated: the result the callback reports to the host is
\* SCIP_DIDNOTRUN whenever the selection was short-circuited before the loop.
C11_ShortCircuitReportsDidNotRun ==
    (Returned /\ exit = "shortcircuit") => result = "SCIP_DIDNOTRUN"

\* C11 (amended): after a short-circuit the result is SCIP_DIDNOTRUN when the
\* selection routine returns to the callback; the callback then branches and
\* reports SCIP_BRANCHED to the host when it returns without error, and
\* SCIP_DIDNOTRUN only when the branching fails.
C11_ShortCircuitResult ==
    exit = "shortcircuit"
        => /\ (pc = "branch" => result = "SCIP_DIDNOTRUN")
           /\ ((Returned /\ retcode = "SCIP_OKAY") => result = "SCIP_BRANCHED")
           /\ ((Returned /\ retcode # "SCIP_OKAY") => result = "SCIP_DIDNOTRUN")

\* a short-circuited execution with one candidate has returned SCIP_BRANCHED
C11_Witness ==
    /\ Returned
    /\ retcode = "SCIP_OKAY"
    /\ exit = "shortcircuit"
    /\ nlpcands = 1
    /\ ~forcestrongbranch
    /\ probes = << >>
    /\ result = "SCIP_BRANCHED"

\* C12: the branching is requested when every SCIPstartStrongbranch of the
\* execution has been matched by SCIPendStrongbranch, and an execution that
\* returns without error has requested it exactly once, on
\* (lpcands[bestcand], lpcandssol[bestcand]) of the candidate arrays as the
\* host handed them over, and reports SCIP_BRANCHED.
C12_BranchOnceAfterSelection ==
    /\ [][Len(branched') > Len(branched)
            => /\ SelectionReturned
               /\ nend = nstart
               /\ branched = << >>]_vars
    /\ []((Returned /\ retcode = "SCIP_OKAY")
            => /\ Len(branched) = 1
               /\ branched[1] = <<HostCands(nlpcands)[bestcand + 1],
                                  HostCandsSol(nlpcands)[bestcand + 1]>>
               /\ nend = nstart
               /\ result = "SCIP_BRANCHED")

\* an execution that probed two candidates chose the second and branched on
\* it after strong branching was ended
C12_Witness ==
    /\ Returned
    /\ retcode = "SCIP_OKAY"
    /\ bestcand = 1
    /\ nstart = 1
    /\ nend = 1
    /\ branched = << <<HostCands(2)[2], HostCandsSol(2)[2]>> >>
    /\ result = "SCIP_BRANCHED"

\* C13: every probe is called in strong branching mode, after the
\* SCIPstartStrongbranch of the execution and before its
\* SCIPendStrongbranch, and an execution that has returned has called
\* SCIPendStrongbranch once for its SCIPstartStrongbranch, on every exit
\* path of the selection routine.
C13_StrongbranchBracket ==
    /\ (Len(probes) > 0 => nstart = 1)
    /\ (pc = "loop" => (strongbranchmode /\ nstart = 1 /\ nend = 0))
    /\ (Returned => nend = nstart)

\* C14: when the callback has returned, on whatever path, none of the three
\* duplicated candidate arrays is still held.
C14_BuffersReleased ==
    Returned => buffers = {}

\* C15: the two score arrays are both NULL or both allocated with scoresize
\* entries, in every state, and after an execution that returns without error
\* both have nlpcands entries.
C15_ScoreArraysPaired ==
    /\ \/ (latestscores = NULL /\ validscores = NULL)
       \/ /\ latestscores # NULL
          /\ validscores # NULL
          /\ Len(latestscores) = scoresize
          /\ Len(validscores) = scoresize
    /\ ((Returned /\ retcode = "SCIP_OKAY")
          => (Len(latestscores) = nlpcands /\ Len(validscores) = nlpcands))

\* the step is a pass of the loop whose probe finds the solve being stopped
ProbeMeetsStop ==
    /\ pc = "loop"
    /\ Len(probes') = Len(probes) + 1
    /\ probes'[Len(probes')].stopped

\* C16 as stated: a probe of a column variable of the LP that finds the
\* solve being stopped returns normally with lperror set, does not call the
\* LP oracle and leaves down, up, downvalid and upvalid as they were before
\* the call (down and up as the loop set them, the flags as the previous
\* pass left them).
C16_StopLeavesOutputsUntouched ==
    [][(ProbeMeetsStop /\ Len(probes) > 0)
         => LET new == probes'[Len(probes')]
                old == probes[Len(probes)]
            IN  /\ new.ret = "SCIP_OKAY"
                /\ new.lperror
                /\ new.oraclecalls = 0
                /\ new.down = -SCIPinfinity
                /\ new.up = -SCIPinfinity
                /\ new.downvalid = old.downvalid
                /\ new.upvalid = old.upvalid]_vars

\* C16 (amended): such a probe returns normally with lperror set, does not
\* call the LP oracle and leaves down and up as they were before the call;
\* downvalid and upvalid are set to false, whatever they held before.
C16_StopResetsValidFlags ==
    [][(ProbeMeetsStop /\ Len(probes) > 0)
         => LET new == probes'[Len(probes')]
            IN  /\ new.ret = "SCIP_OKAY"
                /\ new.lperror
                /\ new.oraclecalls = 0
                /\ new.down = -SCIPinfinity
                /\ new.up = -SCIPinfinity
                /\ new.downvalid = FALSE
                /\ new.upvalid = FALSE]_vars

\* the second probe of an execution found the solve being stopped after the
\* first had returned two valid bounds
C16_Witness ==
    /\ Len(probes) = 2
    /\ probes[1].downvalid
    /\ probes[1].upvalid
    /\ probes[2].stopped
    /\ probes[2].lperror
    /\ ~probes[2].downvalid
    /\ ~probes[2].upvalid
    /\ probes[2].down = -SCIPinfinity
    /\ exit = "lp_error_abort"

\* no probe of the execution reported lperror
NoLperror == \A i \in 1 .. Len(probes) : ~probes[i].lperror

\* C17: with forcestrongbranch set and no probe reporting lperror, a
\* selection that returns has probed every candidate 0 .. nlpcands-1 once,
\* the k-th probe being that of candidate k-1, also after a candidate
\* infeasible on both sides, and has written every entry of latestscores;
\* the loop is left by the break on a candidate infeasible on both sides only
\* when forcestrongbranch is not set.
C17_ForcedLoopProbesAll ==
    /\ [][(pc = "loop" /\ Len(probes') = Len(probes) + 1)
            => /\ Len(probes) = c
               /\ c < nlpcands
               /\ ((forcestrongbranch /\ Evaluated(Len(probes))')
                     => (c' = c + 1 /\ exit' # "early_cutoff"))]_vars
    /\ [](exit = "early_cutoff" => ~forcestrongbranch)
    /\ []((forcestrongbranch /\ LoopReturned /\ NoLperror)
            => /\ exit = "done"
               /\ c = nlpcands
               /\ AllEvaluated
               /\ \A i \in 1 .. nlpcands : latestscores[i] # EmptyScores(nlpcands)[i])

\* with forcestrongbranch set, the first of two candidates was infeasible on
\* both sides and the second was probed and scored all the same
C17_Witness ==
    /\ forcestrongbranch
    /\ exit = "done"
    /\ nlpcands = 2
    /\ BothInfeasible(1)
    /\ Evaluated(2)
    /\ latestscores[1] = SCIPinfinity
    /\ latestscores[2] # -SCIPinfinity

\* C18: with forcestrongbranch not set, a probed candidate infeasible on
\* both sides is the last candidate probed in the execution: the loop is left
\* at it (early cutoff) and no candidate of a higher index is probed,
\* whatever the earlier probes returned.
C18_BothInfeasibleBreaks ==
    ~forcestrongbranch
        => \A i \in 1 .. Len(probes) :
               (Evaluated(i) /\ BothInfeasible(i))
                   => /\ i = Len(probes)
                      /\ c = i - 1
                      /\ pc # "loop"
                      /\ exit = "early_cutoff"

\* without forcestrongbranch the first of two candidates was infeasible on
\* both sides; the selection returned with the second one never probed
C18_Witness ==
    /\ ~forcestrongbranch
    /\ nlpcands = 2
    /\ Len(probes) = 1
    /\ BothInfeasible(1)
    /\ exit = "early_cutoff"
    /\ bestcand = 0
    /\ latestscores[2] = -SCIPinfinity
    /\ Returned

\* the score of evaluated candidate i as a function of what its probe
\* returned and of its branch factor
ScoreOf(i) ==
    IF BothInfeasible(i) THEN SCIPinfinity
    ELSE IF DownInfeasible(i) THEN (ClampedUp(i) - lpobjval) * branchfactor[i]
    ELSE IF UpInfeasible(i) THEN (ClampedDown(i) - lpobjval) * branchfactor[i]
    ELSE SCIPgetBranchScore(branchfactor[i], ClampedDown(i) - lpobjval,
                            ClampedUp(i) - lpobjval)

\* the candidate selected over the first k probes, as a function of the probe
\* results and branch factors alone
RECURSIVE SelectedOver(_)
SelectedOver(k) ==
    IF k = 0
    THEN [cand |-> 0, class |-> 0, score |-> -SCIPinfinity]
    ELSE LET b == SelectedOver(k - 1)
         IN  IF /\ Evaluated(k)
                /\ \/ ClassOf(k) > b.class
                   \/ (ClassOf(k) = b.class /\ ScoreOf(k) > b.score)
             THEN [cand |-> k - 1, class |-> ClassOf(k), score |-> ScoreOf(k)]
             ELSE b

\* C19: what an execution whose selection returned leaves in bestcand,
\* latestscores and validscores is a function of the inputs of that execution
\* alone (number of candidates, branch factors, configuration, what the host
\* and the probes reported), whatever latestscores, validscores and scoresize
\* held when it began; so two executions with the same inputs leave the same
\* three outputs.
C19_OutputsDependOnInputsOnly ==
    (exit \in {"shortcircuit", "done", "early_cutoff", "lp_error_abort"})
        => /\ scoresize = nlpcands
           /\ Len(latestscores) = nlpcands
           /\ Len(validscores) = nlpcands
           /\ IF exit = "shortcircuit"
              THEN /\ bestcand = 0
                   /\ \A i \in 1 .. nlpcands :
                          latestscores[i] = 0 /\ ~validscores[i]
              ELSE /\ bestcand = SelectedOver(Len(probes)).cand
                   /\ \A i \in 1 .. nlpcands :
                          /\ latestscores[i] =
                                 IF Evaluated(i) THEN ScoreOf(i)
                                 ELSE -SCIPinfinity
                          /\ validscores[i] =
                                 (Evaluated(i) /\ ~SomeInfeasible(i))

\* an execution over two candidates, short-circuited because the solve was
\* being stopped, has returned with cleared arrays
C19_Witness ==
    /\ Returned
    /\ retcode = "SCIP_OKAY"
    /\ exit = "shortcircuit"
    /\ forcestrongbranch
    /\ nlpcands = 2
    /\ latestscores = <<0, 0>>
    /\ validscores = <<FALSE, FALSE>>
    /\ bestcand = 0

\* C20: when the selection routine has returned without error, bestcand is
\* an index of the candidate arrays; and if no candidate was evaluated
\* (short-circuit, or lperror at candidate 0) the outputs are the initial
\* ones: bestcand 0, bestdown, bestup and provedbound the LP objective value,
\* both validity flags true and bestscore minus infinity.
C20_BestWithinRangeOrInitial ==
    SelectionReturned
        => /\ 0 <= bestcand
           /\ bestcand < nlpcands
           /\ provedbound = lpobjval
           /\ ((\A i \in 1 .. Len(probes) : ~Evaluated(i))
                 => /\ bestcand = 0
                    /\ bestdown = lpobjval
                    /\ bestup = lpobjval
                    /\ bestdownvalid
                    /\ bestupvalid
                    /\ bestscore = -SCIPinfinity)

\* the probe of candidate 0 of two reported lperror and the selection
\* returned to the callback
C20_Witness ==
    /\ exit = "lp_error_abort"
    /\ pc = "branch"
    /\ nlpcands = 2
    /\ Len(probes) = 1
    /\ probes[1].lperror
    /\ bestcand = 0
    /\ bestscore = -SCIPinfinity

\* C21: at every point of an execution that entered the selection loop,
\* besthasinf is true if and only if some candidate evaluated so far was
\* infeasible on at least one side, and when besthasinf is true the current
\* bestcand is itself a candidate infeasible on at least one side; a best
\* infeasible on one side only sets the flag as well.
C21_BestHasInfIffSomeInfeasible ==
    nstart = 1
        => /\ besthasinf <=> (\E i \in 1 .. Len(probes) :
                                  Evaluated(i) /\ SomeInfeasible(i))
           /\ besthasinf => (/\ Evaluated(bestcand + 1)
                             /\ SomeInfeasible(bestcand + 1))

\* in the loop over two candidates the first one, infeasible on one side
\* only, has become the best and has set the flag
C21_Witness ==
    /\ pc = "loop"
    /\ nlpcands = 2
    /\ c = 1
    /\ Evaluated(1)
    /\ OneInfeasible(1)
    /\ bestcand = 0
    /\ besthasinf

\* C22: at every point of an execution that entered the selection loop and
\* has evaluated a candidate, bestscore is latestscores[bestcand], bestdown
\* and bestup are the bounds the probe of bestcand returned, clamped from
\* below by the LP objective value (so neither is below it), and
\* bestdownvalid and bestupvalid are the validity flags that probe returned.
C22_BestMatchesItsProbe ==
    (nstart = 1 /\ \E i \in 1 .. Len(probes) : Evaluated(i))
        => /\ Evaluated(bestcand + 1)
           /\ bestscore = latestscores[bestcand + 1]
           /\ bestdown = ClampedDown(bestcand + 1)
           /\ bestup = ClampedUp(bestcand + 1)
           /\ bestdown >= lpobjval
           /\ bestup >= lpobjval
           /\ bestdownvalid = probes[bestcand + 1].downvalid
           /\ bestupvalid = probes[bestcand + 1].upvalid

\* the best is the second candidate, whose probe returned a down bound below
\* the LP objective value and an up bound that is only an estimate
C22_Witness ==
    /\ nstart = 1
    /\ Len(probes) = 2
    /\ Evaluated(2)
    /\ bestcand = 1
    /\ probes[2].down < lpobjval
    /\ bestdown = lpobjval
    /\ ~probes[2].upvalid
    /\ ~bestupvalid
    /\ bestup = probes[2].up
    /\ bestscore = latestscores[2]

====
